---- MODULE Spec2Model ----
(***************************************************************************)
(* Model of the resource-addressing and context-assembly layer of the      *)
(* Zoom Workplace MCP chat client (src/core/cli_chat.py) and of the        *)
(* in-memory resource store it talks to (src/mcp_server.py).               *)
(*                                                                         *)
(* Python str values are TLA+ strings; TLC evaluates Len, Head, Tail,      *)
(* SubSeq and \o on them, so the string functions below are computed       *)
(* character by character, the way the Python code computes them.          *)
(***************************************************************************)
EXTENDS Integers, Sequences, FiniteSets, TLC

VARIABLES
    zoom_data,            \* mcp_server.zoom_data: type -> (id -> Document)
    messages,             \* Chat.messages: the conversation history
    pc,                   \* position of the query turn in flight
    query,                \* argument of the _process_query call in flight
    all_ids_set,          \* _extract_resources: set(all_ids)
    normalized_mentions,  \* _extract_resources: normalized_mentions
    mentioned_docs,       \* _extract_resources: mentioned_docs
    cursor,               \* _extract_resources: position of the fetch loop
    error,                \* exception that ended the last turn, or NoError
    calls,                \* round trips issued to the store by the turn
    pre_messages,         \* history as it was when the turn started
    listed_data,          \* zoom_data as it was at the turn's index listing
    added_resources,      \* value returned by _extract_resources
    turns,                \* number of turns started
    edits,                \* number of edit_zoom_resource calls made
    resource_path,        \* argument of a _split_resource_path call
    split_result,         \* its outcome
    prompt_message,       \* argument of convert_prompt_message_to_message_param
    message_param,        \* its outcome
    doc_id,               \* argument of a get_doc_content call
    doc_result,           \* its outcome
    listing,              \* outcome of a list_docs_ids call
    client_call           \* the index client's read_resource call in flight

vars == <<zoom_data, messages, pc, query, all_ids_set, normalized_mentions,
          mentioned_docs, cursor, error, calls, pre_messages, listed_data,
          added_resources, turns, edits, resource_path, split_result, prompt_message,
          message_param, doc_id, doc_result, listing, client_call>>

chatVars == <<messages, pc, query, all_ids_set, normalized_mentions,
              mentioned_docs, cursor, error, calls, pre_messages,
              listed_data, added_resources, turns>>
parserVars == <<resource_path, split_result>>
convertVars == <<prompt_message, message_param>>
clientVars == <<doc_id, doc_result, listing, client_call>>

-----------------------------------------------------------------------------
(* Bounds of the model *)

MaxPathLen == 4     \* longest resource path given to the parser
MaxBlocks == 3      \* longest content sequence given to the normalizer
MaxTokens == 2      \* most whitespace-delimited tokens in an enumerated query
MaxTurns == 2       \* most query turns in one behaviour
MaxEdits == 2       \* most edit_zoom_resource calls in one behaviour

-----------------------------------------------------------------------------
(* Python str primitives *)

\* The ASCII characters of str.isspace(), which str.strip() removes and at
\* which str.split() cuts.  U+0085, U+00A0, U+1680, U+2000..U+200A, U+2028,
\* U+2029, U+202F, U+205F and U+3000 are whitespace for Python too; a string
\* of this module is ASCII, so no string of the model holds one of them and
\* the model says nothing about inputs that do.
VerticalTab == ""
FileSeparator == ""
GroupSeparator == ""
RecordSeparator == ""
UnitSeparator == ""

Whitespace ==
    {" ", "\t", "\n", "\r", "\f", VerticalTab, FileSeparator, GroupSeparator,
     RecordSeparator, UnitSeparator}

CharAt(s, k) == SubSeq(s, k, k)

\* c in s, for a one-character c
Contains(s, c) == \E k \in 1..Len(s) : CharAt(s, k) = c

\* s.find(c) + 1, for c in s
FirstIndex(s, c) ==
    CHOOSE k \in 1..Len(s) :
        /\ CharAt(s, k) = c
        /\ \A j \in 1..(k - 1) : CharAt(s, j) # c

\* s.split(c, 1), for c in s
PySplitOnce(s, c) ==
    LET k == FirstIndex(s, c)
    IN  <<SubSeq(s, 1, k - 1), SubSeq(s, k + 1, Len(s))>>

\* s.strip()
PyStrip(s) ==
    LET keep == {k \in 1..Len(s) : CharAt(s, k) \notin Whitespace}
    IN  IF keep = {} THEN ""
        ELSE LET lo == CHOOSE k \in keep : \A j \in keep : k <= j
                 hi == CHOOSE k \in keep : \A j \in keep : j <= k
             IN  SubSeq(s, lo, hi)

\* s.startswith(p)
StartsWith(s, p) == Len(s) >= Len(p) /\ SubSeq(s, 1, Len(p)) = p

RECURSIVE SplitFrom(_, _)
SplitFrom(s, cur) ==
    IF s = ""
    THEN IF cur = "" THEN <<>> ELSE <<cur>>
    ELSE IF Head(s) \in Whitespace
         THEN IF cur = ""
              THEN SplitFrom(Tail(s), "")
              ELSE <<cur>> \o SplitFrom(Tail(s), "")
         ELSE SplitFrom(Tail(s), cur \o Head(s))

\* s.split(): the maximal runs of non-whitespace characters, in order
PySplit(s) == SplitFrom(s, "")

RECURSIVE PyRemoveAll(_, _)
\* s.replace(c, ""), for a one-character c
PyRemoveAll(s, c) ==
    IF s = "" THEN ""
    ELSE IF Head(s) = c
         THEN PyRemoveAll(Tail(s), c)
         ELSE Head(s) \o PyRemoveAll(Tail(s), c)

-----------------------------------------------------------------------------
(* Outcomes: a returned value, or a raised exception *)

Return(v) == [ok |-> TRUE, val |-> v]
Raise(e) == [ok |-> FALSE, exc |-> e]

InvalidAddress ==
    "ValueError: Resource path must be 'type/id' or 'type:id', e.g., 'meetings/987654321'."
StoreFailure == "store round trip failed"
NoError == "none"
NoCall == "none"
NotRun == [ok |-> FALSE, exc |-> "not run"]

-----------------------------------------------------------------------------
(* Resource Address Parser: cli_chat._split_resource_path *)

\* a parser that splits at whichever separator character comes first
SplitAtFirstSeparator(path) ==
    IF Contains(path, "/") \/ Contains(path, ":")
    THEN LET k == CHOOSE n \in 1..Len(path) :
                      /\ CharAt(path, n) \in {"/", ":"}
                      /\ \A j \in 1..(n - 1) : CharAt(path, j) \notin {"/", ":"}
         IN  Return(<<PyStrip(SubSeq(path, 1, k - 1)),
                      PyStrip(SubSeq(path, k + 1, Len(path)))>>)
    ELSE Raise(InvalidAddress)

_split_resource_path(path) ==
    IF Contains(path, "/")
    THEN LET parts == PySplitOnce(path, "/")
         IN  Return(<<PyStrip(parts[1]), PyStrip(parts[2])>>)
    ELSE IF Contains(path, ":")
         THEN LET parts == PySplitOnce(path, ":")
              IN  Return(<<PyStrip(parts[1]), PyStrip(parts[2])>>)
         ELSE Raise(InvalidAddress)

-----------------------------------------------------------------------------
(* Message Normalizer: cli_chat.convert_prompt_message_to_message_param   *)
(*                                                                         *)
(* A Python value carries its runtime shape in the field py: "dict" (a     *)
(* mapping), "object" (an instance with a __dict__, such as a pydantic     *)
(* content block), "list" or "str".  The keys of a mapping and the         *)
(* attributes of an object are both the record fields.                     *)

PyNone == "None"
PyStr(v) == [py |-> "str", value |-> v]
PyList(items) == [py |-> "list", items |-> items]

\* isinstance(x, dict) or hasattr(x, "__dict__")
IsDictLike(x) == x.py \in {"dict", "object"}

\* x.get(name, default) for a mapping, getattr(x, name, default) for an object
PyGet(x, name, default) ==
    IF name \in DOMAIN x.fields THEN x.fields[name] ELSE default

RECURSIVE TextBlocksOfMappings(_)
\* a filter loop that recognises mappings only
TextBlocksOfMappings(items) ==
    IF items = <<>> THEN <<>>
    ELSE LET item == Head(items)
             rest == TextBlocksOfMappings(Tail(items))
         IN  IF item.py = "dict" /\ PyGet(item, "type", PyNone) = "text"
             THEN <<[type |-> "text", text |-> PyGet(item, "text", "")]>> \o rest
             ELSE rest

RECURSIVE TextBlocks(_)
\* the loop over the items of a list content
TextBlocks(items) ==
    IF items = <<>> THEN <<>>
    ELSE LET item == Head(items)
             rest == TextBlocks(Tail(items))
         IN  IF IsDictLike(item) /\ PyGet(item, "type", PyNone) = "text"
             THEN <<[type |-> "text", text |-> PyGet(item, "text", "")]>> \o rest
             ELSE rest

convert_prompt_message_to_message_param(pm) ==
    LET role == IF pm.role = "user" THEN "user" ELSE "assistant"
        content == pm.content
    IN  IF IsDictLike(content) /\ PyGet(content, "type", PyNone) = "text"
        THEN [role |-> role, content |-> PyStr(PyGet(content, "text", ""))]
        ELSE IF content.py = "list" /\ TextBlocks(content.items) # <<>>
             THEN [role |-> role, content |-> PyList(TextBlocks(content.items))]
             ELSE [role |-> role, content |-> PyStr("")]

\* [convert_prompt_message_to_message_param(msg) for msg in prompt_messages]
convert_prompt_messages_to_message_params(pms) ==
    [k \in 1..Len(pms) |-> convert_prompt_message_to_message_param(pms[k])]

-----------------------------------------------------------------------------
(* The resource store: mcp_server.py                                       *)
(*                                                                         *)
(* A Document is a Python dict, kept as the sequence of its items in       *)
(* insertion order, each value written as its Python repr.                 *)

zoom_data_initial ==
    [ meetings |->
        ( "987654321" :>
              << <<"topic", "'Weekly Platform Sync'">>,
                 <<"agenda", "'Zoom Developer platform updates'">>,
                 <<"start_time", "'2025-09-08T15:00:00Z'">>,
                 <<"duration_minutes", "45">>,
                 <<"host_user_id", "'u_123'">>,
                 <<"participants", "['u_123', 'u_456', 'u_789']">> >> )
        @@ ( "123456789" :>
              << <<"topic", "'Contact Center Deep Dive'">>,
                 <<"agenda", "'Roadmap + integration patterns'">>,
                 <<"start_time", "'2025-09-10T17:30:00Z'">>,
                 <<"duration_minutes", "60">>,
                 <<"host_user_id", "'u_555'">>,
                 <<"participants", "['u_555', 'u_777']">> >> ),
      team_chat |->
        ( "msg_1001" :>
              << <<"channel", "'devrel-internal'">>,
                 <<"sender_user_id", "'u_456'">>,
                 <<"text", "'Reminder: update SDK samples by Friday.'">>,
                 <<"timestamp", "'2025-09-08T14:22:10Z'">> >> )
        @@ ( "msg_1002" :>
              << <<"channel", "'zoom-apps'">>,
                 <<"sender_user_id", "'u_123'">>,
                 <<"text", "'Draft blog on persistent participant IDs is ready.'">>,
                 <<"timestamp", "'2025-09-08T16:10:03Z'">> >> ),
      mail |->
        ( "email_2001" :>
              << <<"subject", "'Zoom Apps Workshop Agenda'">>,
                 <<"from", "'pm@zoom.us'">>,
                 <<"to", "['donte@zoom.us']">>,
                 <<"received_at", "'2025-09-07T19:45:00Z'">>,
                 <<"snippet", "'Sharing the latest outline and owners...'">>,
                 <<"body", "'Hi team,\\n\\nAttached is the draft agenda...\\n'">> >> ),
      calendar |->
        ( "event_3001" :>
              << <<"title", "'DX Weekly Planning'">>,
                 <<"start", "'2025-09-09T13:00:00Z'">>,
                 <<"end", "'2025-09-09T13:30:00Z'">>,
                 <<"location", "'Zoom Meeting'">>,
                 <<"organizer_user_id", "'u_123'">>,
                 <<"attendees", "['u_123', 'u_456', 'u_789']">> >> ) ]

\* the keys of zoom_data in insertion order
TypeOrder == <<"meetings", "team_chat", "mail", "calendar">>

UnknownType(resource_type) ==
    "ValueError: Unknown resource_type '" \o resource_type
        \o "'. Use one of: meetings, team_chat, mail, calendar."

ItemNotFound(resource_type, resource_id) ==
    "ValueError: " \o resource_type \o " item with ID '" \o resource_id
        \o "' not found."

_ensure_resource(data, resource_type, resource_id) ==
    IF resource_type \notin DOMAIN data
    THEN Raise(UnknownType(resource_type))
    ELSE IF resource_id \notin DOMAIN data[resource_type]
         THEN Raise(ItemNotFound(resource_type, resource_id))
         ELSE Return(<<data[resource_type], data[resource_type][resource_id]>>)

get_zoom_resource(data, resource_type, resource_id) ==
    IF resource_type \notin DOMAIN data
    THEN Raise(UnknownType(resource_type))
    ELSE LET found == _ensure_resource(data, resource_type, resource_id)
         IN  IF found.ok THEN Return(found.val[2]) ELSE found

\* characters of the resource types and ids, in code point order
CodePointOrder == " /0123456789:_abcdefghijklmnopqrstuvwxyz"

Ord(c) == CHOOSE k \in 1..Len(CodePointOrder) : CharAt(CodePointOrder, k) = c

RECURSIVE StrLess(_, _)
\* a < b for Python str
StrLess(a, b) ==
    IF b = "" THEN FALSE
    ELSE IF a = "" THEN TRUE
    ELSE IF Head(a) = Head(b) THEN StrLess(Tail(a), Tail(b))
    ELSE Ord(Head(a)) < Ord(Head(b))

RECURSIVE InsertSorted(_, _)
InsertSorted(x, sorted) ==
    IF sorted = <<>> THEN <<x>>
    ELSE IF StrLess(x, Head(sorted))
         THEN <<x>> \o sorted
         ELSE <<Head(sorted)>> \o InsertSorted(x, Tail(sorted))

RECURSIVE PySorted(_)
\* sorted(xs, key=str) for a list of str
PySorted(xs) ==
    IF xs = <<>> THEN <<>>
    ELSE InsertSorted(xs[Len(xs)], PySorted(SubSeq(xs, 1, Len(xs) - 1)))

RECURSIVE SetToSeq(_)
SetToSeq(S) ==
    IF S = {} THEN <<>>
    ELSE LET x == CHOOSE y \in S : TRUE IN <<x>> \o SetToSeq(S \ {x})

\* the mapping type -> sorted ids, as its items in insertion order
list_zoom_resources(data) ==
    [k \in 1..Len(TypeOrder) |->
        <<TypeOrder[k], PySorted(SetToSeq(DOMAIN data[TypeOrder[k]]))>>]

\* the new zoom_data of an edit whose item is removed instead of stored
EditRemoves(data, resource_type, resource_id, new_content) ==
    [data EXCEPT ![resource_type] =
        [x \in (DOMAIN @) \ {resource_id} |-> @[x]]]

\* collection[resource_id] = new_content
EditStores(data, resource_type, resource_id, new_content) ==
    [data EXCEPT ![resource_type] =
        [x \in (DOMAIN @) \cup {resource_id} |->
            IF x = resource_id THEN new_content ELSE @[x]]]

edit_zoom_resource(resource_type, resource_id, new_content, upsert) ==
    /\ edits < MaxEdits
    /\ edits' = edits + 1
    /\ IF resource_type \notin DOMAIN zoom_data
       THEN UNCHANGED zoom_data
       ELSE IF resource_id \notin DOMAIN zoom_data[resource_type] /\ ~upsert
            THEN UNCHANGED zoom_data
            ELSE zoom_data' =
                     EditStores(zoom_data, resource_type, resource_id, new_content)
    /\ UNCHANGED <<chatVars, parserVars, convertVars, clientVars>>

-----------------------------------------------------------------------------
(* Resource Index Client: CliChat.list_docs_ids, CliChat.get_doc_content   *)
(* doc_client.read_resource hands "res://resources" to list_zoom_resources *)
(* and "res://resources/{type}/{id}" to get_zoom_resource.                 *)

IndexUri == "res://resources"
ItemUri(rtype, rid) == "res://resources/" \o rtype \o "/" \o rid

RECURSIVE Flatten(_)
\* [f"{rtype}/{rid}" for rtype, ids in mapping.items() for rid in ids]
Flatten(mapping) ==
    IF mapping = <<>> THEN <<>>
    ELSE LET rtype == Head(mapping)[1]
             ids == Head(mapping)[2]
         IN  [k \in 1..Len(ids) |-> rtype \o "/" \o ids[k]]
                 \o Flatten(Tail(mapping))

list_docs_ids(data) == PySorted(Flatten(list_zoom_resources(data)))

get_doc_content(data, id) ==
    LET parsed == _split_resource_path(id)
    IN  IF parsed.ok
        THEN get_zoom_resource(data, parsed.val[1], parsed.val[2])
        ELSE parsed

-----------------------------------------------------------------------------
(* Mention Extractor, Command Dispatcher, Prompt Assembler:                *)
(* CliChat._extract_resources, _process_command, _process_query            *)

Min(S) == CHOOSE k \in S : \A j \in S : k <= j

RECURSIVE Join(_, _)
\* sep.join(parts)
Join(parts, sep) ==
    IF parts = <<>> THEN ""
    ELSE IF Len(parts) = 1 THEN parts[1]
    ELSE parts[1] \o sep \o Join(Tail(parts), sep)

\* str(content) of a Document
PyFormat(doc) ==
    "{" \o Join([k \in 1..Len(doc) |-> "'" \o doc[k][1] \o "': " \o doc[k][2]],
                ", ") \o "}"

\* a command test that skips leading whitespace
IsCommandAfterStrip(q) == StartsWith(PyStrip(q), "/")

\* query.startswith("/")
IsCommand(q) == StartsWith(q, "/")

\* words[0].replace("/", "")
CommandName(q) == PyRemoveAll(PySplit(q)[1], "/")

\* words[1] if len(words) > 1 else ""
CommandTarget(q) == IF Len(PySplit(q)) > 1 THEN PySplit(q)[2] ELSE ""

IsMention(word) == StartsWith(word, "@")

\* mentions listed once each, at their first occurrence
RECURSIVE Deduplicated(_)
Deduplicated(xs) ==
    IF xs = <<>> THEN <<>>
    ELSE LET front == Deduplicated(SubSeq(xs, 1, Len(xs) - 1))
             last == xs[Len(xs)]
         IN  IF \E k \in 1..Len(front) : front[k] = last
             THEN front ELSE Append(front, last)

MentionsOnce(q) ==
    LET words == SelectSeq(PySplit(q), IsMention)
    IN  Deduplicated([k \in 1..Len(words) |-> Tail(words[k])])

\* [word[1:] for word in query.split() if word.startswith("@")]
Mentions(q) ==
    LET words == SelectSeq(PySplit(q), IsMention)
    IN  [k \in 1..Len(words) |-> Tail(words[k])]

\* a normalization that parses every mention, whatever its form
NormalizeByParsing(m) ==
    LET parsed == _split_resource_path(m)
    IN  IF parsed.ok
        THEN Return(parsed.val[1] \o "/" \o parsed.val[2])
        ELSE parsed

\* the body of the normalization loop
NormalizeMention(m) ==
    IF Contains(m, ":")
    THEN LET parsed == _split_resource_path(m)
         IN  IF parsed.ok
             THEN Return(parsed.val[1] \o "/" \o parsed.val[2])
             ELSE parsed
    ELSE Return(m)

RECURSIVE NormalizeAll(_)
\* the normalization loop: the list, or the exception the parser raised
NormalizeAll(mentions) ==
    IF mentions = <<>> THEN Return(<<>>)
    ELSE LET first == NormalizeMention(Head(mentions))
         IN  IF ~first.ok THEN first
             ELSE LET rest == NormalizeAll(Tail(mentions))
                  IN  IF ~rest.ok THEN rest
                      ELSE Return(<<first.val>> \o rest.val)

ResourceBlock(id, content) ==
    "\n<resource id=\"" \o id \o "\">\n" \o PyFormat(content) \o "\n</resource>\n"

\* "".join(block for doc_id, content in mentioned_docs)
Fragment(docs) ==
    Join([k \in 1..Len(docs) |-> ResourceBlock(docs[k][1], docs[k][2])], "")

PromptHead ==
    "\n        The user has a question:\n        <query>\n        "
PromptMiddle ==
    "\n        </query>\n\n"
    \o "        The following context may be useful in answering their question:\n"
    \o "        <context>\n        "
PromptTail ==
    "\n        </context>\n\n        Notes:\n"
    \o "        - Users may reference Zoom Workplace resources with mentions like "
    \o "\"@meetings/987654321\" or \"@team_chat/msg_1001\".\n"
    \o "        - The \"@\" is only a mention marker; the actual resource key is \"type/id\".\n"
    \o "        - If the resource content is already included above, "
    \o "do not call additional tools to fetch it again.\n\n"
    \o "        Answer the user's question directly and concisely. "
    \o "Start with the exact information they need.\n"
    \o "        Do not refer to the provided context explicitly; "
    \o "just use it to inform your answer.\n        "

Prompt(q, resources) == PromptHead \o q \o PromptMiddle \o resources \o PromptTail

\* the history when the augmented message is appended on every pass of the
\* fetch loop
HistoryAppendedInLoop(history, q, docs, finished) ==
    Append(history, [role |-> "user", content |-> PyStr(Prompt(q, Fragment(docs)))])

\* the history while _process_query runs the fetch loop (finished = FALSE)
\* and after it has appended the augmented message (finished = TRUE)
HistoryOfQuery(history, q, docs, finished) ==
    IF finished
    THEN Append(history, [role |-> "user", content |-> PyStr(Prompt(q, Fragment(docs)))])
    ELSE history

\* self.messages += convert_prompt_messages_to_message_params(messages)
HistoryOfCommand(history, prompt_messages) ==
    history \o convert_prompt_messages_to_message_params(prompt_messages)

\* the round trip the turn is waiting for
PendingCall ==
    IF pc = "prompting"
    THEN [op |-> "get_prompt", name |-> CommandName(query),
          doc_id |-> CommandTarget(query)]
    ELSE IF pc = "listing"
    THEN [op |-> "read_resource", uri |-> IndexUri]
    ELSE LET parsed == _split_resource_path(normalized_mentions[cursor])
         IN  [op |-> "read_resource",
              uri |-> IF parsed.ok THEN ItemUri(parsed.val[1], parsed.val[2])
                      ELSE "none"]

Answered(call, result) == [call |-> call, result |-> result]

\* _process_query(q) up to its first await
StartQuery(q, limit) ==
    /\ pc \in {"idle", "done", "failed"}
    /\ turns < limit
    /\ turns' = turns + 1
    /\ query' = q
    /\ pre_messages' = messages
    /\ error' = NoError
    /\ calls' = <<>>
    /\ all_ids_set' = {}
    /\ normalized_mentions' = <<>>
    /\ mentioned_docs' = <<>>
    /\ cursor' = 0
    /\ listed_data' = <<>>
    /\ added_resources' = ""
    /\ pc' = IF IsCommand(q) THEN "prompting" ELSE "listing"
    /\ UNCHANGED <<messages, zoom_data, edits, parserVars, convertVars, clientVars>>

\* the exception of a round trip, or of the parser, leaves _process_query
TurnFails(exc) ==
    /\ pc' = "failed"
    /\ error' = exc
    /\ UNCHANGED <<messages, added_resources>>

\* the fetch loop from position from on, up to its next await or to the
\* end of _process_query
ResumeLoop(norm, ids, from, docs) ==
    LET hits == {k \in from..Len(norm) : norm[k] \in ids}
    IN  /\ mentioned_docs' = docs
        /\ UNCHANGED error
        /\ IF hits # {}
           THEN /\ cursor' = Min(hits)
                /\ pc' = "fetching"
                /\ messages' = HistoryOfQuery(messages, query, docs, FALSE)
                /\ UNCHANGED added_resources
           ELSE /\ cursor' = Len(norm) + 1
                /\ pc' = "done"
                /\ added_resources' = Fragment(docs)
                /\ messages' = HistoryOfQuery(messages, query, docs, TRUE)

\* doc_client.get_prompt returns the templated messages
PromptReturns(prompt_messages) ==
    /\ pc = "prompting"
    /\ calls' = Append(calls, Answered(PendingCall, Return(prompt_messages)))
    /\ messages' = HistoryOfCommand(messages, prompt_messages)
    /\ pc' = "done"
    /\ UNCHANGED <<query, all_ids_set, normalized_mentions, mentioned_docs,
                   cursor, error, pre_messages, listed_data, added_resources,
                   turns, zoom_data, edits, parserVars, convertVars, clientVars>>

\* list_docs_ids returns: the index is built, the mentions are normalized
\* and the fetch loop starts
ListingReturns ==
    /\ pc = "listing"
    /\ LET all_ids == list_docs_ids(zoom_data)
           ids == {all_ids[k] : k \in 1..Len(all_ids)}
           normalized == NormalizeAll(Mentions(query))
       IN  /\ calls' = Append(calls, Answered(PendingCall, Return(all_ids)))
           /\ listed_data' = zoom_data
           /\ all_ids_set' = ids
           /\ IF normalized.ok
              THEN /\ normalized_mentions' = normalized.val
                   /\ ResumeLoop(normalized.val, ids, 1, <<>>)
              ELSE /\ TurnFails(normalized.exc)
                   /\ UNCHANGED <<normalized_mentions, mentioned_docs, cursor>>
    /\ UNCHANGED <<query, pre_messages, turns, zoom_data, edits, parserVars,
                   convertVars, clientVars>>

\* get_doc_content returns or raises what the store answers
FetchReturns ==
    /\ pc = "fetching"
    /\ LET id == normalized_mentions[cursor]
           content == get_doc_content(zoom_data, id)
       IN  /\ calls' = Append(calls, Answered(PendingCall, content))
           /\ IF content.ok
              THEN ResumeLoop(normalized_mentions, all_ids_set, cursor + 1,
                              Append(mentioned_docs, <<id, content.val>>))
              ELSE /\ TurnFails(content.exc)
                   /\ UNCHANGED <<mentioned_docs, cursor>>
    /\ UNCHANGED <<query, all_ids_set, normalized_mentions, pre_messages,
                   listed_data, turns, zoom_data, edits, parserVars,
                   convertVars, clientVars>>

\* the round trip in flight fails
RoundTripFails ==
    /\ pc \in {"prompting", "listing", "fetching"}
    /\ calls' = Append(calls, Answered(PendingCall, Raise(StoreFailure)))
    /\ TurnFails(StoreFailure)
    /\ UNCHANGED <<query, all_ids_set, normalized_mentions, mentioned_docs,
                   cursor, pre_messages, listed_data, turns, zoom_data, edits,
                   parserVars, convertVars, clientVars>>

-----------------------------------------------------------------------------
(* Inputs of the parser *)

RECURSIVE StringsUpTo(_, _)
\* every string of at most n characters drawn from alphabet
StringsUpTo(alphabet, n) ==
    IF n = 0 THEN {""}
    ELSE LET shorter == StringsUpTo(alphabet, n - 1)
         IN  shorter \cup {s \o c : s \in shorter, c \in alphabet}

PathAlphabet == {"a", "b", "/", ":", " ", VerticalTab}
PathInputs == StringsUpTo(PathAlphabet, MaxPathLen)

-----------------------------------------------------------------------------
(* Values of the variables a specification does not use *)

IdleChat ==
    /\ messages = <<>>
    /\ pc = "idle"
    /\ query = ""
    /\ all_ids_set = {}
    /\ normalized_mentions = <<>>
    /\ mentioned_docs = <<>>
    /\ cursor = 0
    /\ error = NoError
    /\ calls = <<>>
    /\ pre_messages = <<>>
    /\ listed_data = <<>>
    /\ added_resources = ""
    /\ turns = 0

IdleParser == resource_path = "" /\ split_result = NotRun
IdleConvert == prompt_message = <<>> /\ message_param = NotRun
IdleClient ==
    /\ doc_id = ""
    /\ doc_result = NotRun
    /\ listing = NotRun
    /\ client_call = NoCall

-----------------------------------------------------------------------------
(* Specification of the parser alone: one call on an arbitrary path *)

SplitResourcePath ==
    /\ split_result = NotRun
    /\ split_result' = _split_resource_path(resource_path)
    /\ UNCHANGED <<zoom_data, edits, chatVars, resource_path, convertVars,
                   clientVars>>

InitParser ==
    /\ resource_path \in PathInputs
    /\ split_result = NotRun
    /\ zoom_data = <<>>
    /\ edits = 0
    /\ IdleChat /\ IdleConvert /\ IdleClient

NextParser == SplitResourcePath

SpecParser == InitParser /\ [][NextParser]_vars

-----------------------------------------------------------------------------
(* Claims about the parser *)

HasSeparator(s) == Contains(s, "/") \/ Contains(s, ":")

\* t is x without its leading and trailing whitespace
IsTrimOf(t, x) ==
    \E a, b \in 0..Len(x) :
        /\ a + b <= Len(x)
        /\ t = SubSeq(x, a + 1, Len(x) - b)
        /\ \A k \in 1..a : CharAt(x, k) \in Whitespace
        /\ \A k \in (Len(x) - b + 1)..Len(x) : CharAt(x, k) \in Whitespace
        /\ t # "" => /\ CharAt(t, 1) \notin Whitespace
                     /\ CharAt(t, Len(t)) \notin Whitespace

\* the outcome r is the split of s at position k, both parts trimmed
IsSplitAt(r, s, k) ==
    /\ r.ok
    /\ IsTrimOf(r.val[1], SubSeq(s, 1, k - 1))
    /\ IsTrimOf(r.val[2], SubSeq(s, k + 1, Len(s)))

\* k is the first position of s holding a character of chars
IsFirstOf(s, k, chars) ==
    /\ CharAt(s, k) \in chars
    /\ \A j \in 1..(k - 1) : CharAt(s, j) \notin chars

\* C5 as stated: the parser splits at the first separator character of
\* either kind, trims both parts, and fails with the invalid-address error
\* exactly when the string holds neither separator.
C5_SplitsAtFirstSeparator ==
    split_result # NotRun =>
        /\ split_result.ok <=> HasSeparator(resource_path)
        /\ ~split_result.ok => split_result.exc = InvalidAddress
        /\ split_result.ok =>
              \E k \in 1..Len(resource_path) :
                  /\ IsFirstOf(resource_path, k, {"/", ":"})
                  /\ IsSplitAt(split_result, resource_path, k)

\* C5 amended: the parser splits at the first '/' when the string holds a
\* '/', otherwise at the first ':'; both parts are trimmed; it fails with
\* the invalid-address error exactly when the string holds neither.
C5_SlashTakesPrecedence ==
    split_result # NotRun =>
        /\ split_result.ok <=> HasSeparator(resource_path)
        /\ ~split_result.ok => split_result.exc = InvalidAddress
        /\ split_result.ok =>
              \E k \in 1..Len(resource_path) :
                  /\ IF Contains(resource_path, "/")
                     THEN IsFirstOf(resource_path, k, {"/"})
                     ELSE IsFirstOf(resource_path, k, {":"})
                  /\ IsSplitAt(split_result, resource_path, k)

\* a path with a ':' before its first '/' and whitespace to trim was split
C5_Witness ==
    /\ split_result.ok
    /\ Contains(resource_path, ":") /\ Contains(resource_path, "/")
    /\ FirstIndex(resource_path, ":") < FirstIndex(resource_path, "/")
    /\ Contains(resource_path, " ")
    /\ split_result.val[1] # ""

\* C6: every address the parser returns has a non-empty type and a
\* non-empty id.
C6_PartsNonEmpty ==
    split_result.ok => split_result.val[1] # "" /\ split_result.val[2] # ""

-----------------------------------------------------------------------------
(* Specification of the normalizer alone: one call on an arbitrary message *)

RECURSIVE SeqsUpTo(_, _)
\* every sequence of at most n elements drawn from S
SeqsUpTo(S, n) ==
    IF n = 0 THEN {<<>>}
    ELSE LET shorter == SeqsUpTo(S, n - 1)
         IN  shorter \cup {Append(q, x) : q \in shorter, x \in S}

BlockFields ==
    { [type |-> "text", text |-> "a"],
      [type |-> "text", text |-> "b"],
      [type |-> "text"],
      [type |-> "image", data |-> "x"] }

ContentBlocks == {[py |-> shape, fields |-> f] : shape \in {"dict", "object"},
                                                 f \in BlockFields}
ContentItems == ContentBlocks \cup {PyStr("a")}

PromptContents ==
    ContentBlocks \cup {PyStr("a")}
        \cup {PyList(items) : items \in SeqsUpTo(ContentItems, MaxBlocks)}

PromptMessages == [role : {"user", "assistant", "system"}, content : PromptContents]

ConvertPromptMessage ==
    /\ message_param = NotRun
    /\ message_param' =
           Return(convert_prompt_message_to_message_param(prompt_message))
    /\ UNCHANGED <<zoom_data, edits, chatVars, parserVars, prompt_message,
                   clientVars>>

InitConvert ==
    /\ prompt_message \in PromptMessages
    /\ message_param = NotRun
    /\ zoom_data = <<>>
    /\ edits = 0
    /\ IdleChat /\ IdleParser /\ IdleClient

NextConvert == ConvertPromptMessage

SpecConvert == InitConvert /\ [][NextConvert]_vars

-----------------------------------------------------------------------------
(* Claims about the normalizer *)

\* the item carries the "text" kind, as a mapping or as an object
CarriesText(item) ==
    /\ item.py \in {"dict", "object"}
    /\ "type" \in DOMAIN item.fields
    /\ item.fields.type = "text"

\* out is the subsequence of the text-kind items, each as a text block
IsTextSubsequence(out, items) ==
    LET at == {k \in 1..Len(items) : CarriesText(items[k])}
        rank(k) == Cardinality({j \in at : j <= k})
    IN  /\ Len(out) = Cardinality(at)
        /\ \A k \in at :
              /\ out[rank(k)].type = "text"
              /\ out[rank(k)].text =
                     IF "text" \in DOMAIN items[k].fields
                     THEN items[k].fields.text ELSE ""

\* C4 as stated: for every sequence content, also one without a text-kind
\* block, the normalized content is the ordered subsequence of its
\* text-kind blocks, mappings and objects alike.
C4_SequenceIsFiltered ==
    (message_param.ok /\ prompt_message.content.py = "list") =>
        /\ message_param.val.content.py = "list"
        /\ IsTextSubsequence(message_param.val.content.items,
                             prompt_message.content.items)

\* C4 amended: a sequence content with at least one text-kind block is
\* normalized to the ordered subsequence of its text-kind blocks, mappings
\* and objects alike; a sequence without a text-kind block is normalized to
\* the empty string.
C4_NonEmptySequenceIsFiltered ==
    (message_param.ok /\ prompt_message.content.py = "list") =>
        IF \E k \in 1..Len(prompt_message.content.items) :
               CarriesText(prompt_message.content.items[k])
        THEN /\ message_param.val.content.py = "list"
             /\ IsTextSubsequence(message_param.val.content.items,
                                  prompt_message.content.items)
        ELSE message_param.val.content = PyStr("")

\* a sequence holding a text mapping, a text object and a non-text block
\* was normalized
C4_Witness ==
    /\ message_param.ok
    /\ prompt_message.content.py = "list"
    /\ \E i, j, k \in 1..Len(prompt_message.content.items) :
          LET items == prompt_message.content.items
          IN  /\ CarriesText(items[i]) /\ items[i].py = "dict"
              /\ CarriesText(items[j]) /\ items[j].py = "object"
              /\ ~CarriesText(items[k])
    /\ Len(message_param.val.content.items) = 2

-----------------------------------------------------------------------------
(* Specification of the store and its index client: edits of the store,   *)
(* listings and fetches, in any order                                      *)

NewContents ==
    { << <<"markdown", "'# v1'">> >>, << <<"markdown", "'# v2'">> >> }

StoreEditTypes == {"meetings", "bogus"}
StoreEditIds == {"1", " 1", "a:b"}

\* the composite identifiers a caller asks for
DocIdInputs ==
    {t \o sep \o i : t \in StoreEditTypes, sep \in {"/", ":"},
                     i \in StoreEditIds \cup {"987654321"}}
        \cup {"meetings"}

\* list_docs_ids up to its await of read_resource("res://resources")
ListDocsIds ==
    /\ client_call = NoCall
    /\ client_call' = "list_docs_ids"
    /\ UNCHANGED <<zoom_data, edits, chatVars, parserVars, convertVars,
                   doc_id, doc_result, listing>>

\* the store answers; list_docs_ids flattens, sorts and returns
ListDocsIdsReturns ==
    /\ client_call = "list_docs_ids"
    /\ listing' = Return(list_docs_ids(zoom_data))
    /\ client_call' = NoCall
    /\ UNCHANGED <<zoom_data, edits, chatVars, parserVars, convertVars,
                   doc_id, doc_result>>

\* get_doc_content(id) up to its await of read_resource: the parser raises
\* before any call, or the call is issued
GetDocContent(id) ==
    /\ client_call = NoCall
    /\ doc_id' = id
    /\ IF _split_resource_path(id).ok
       THEN /\ client_call' = "get_doc_content"
            /\ doc_result' = NotRun
       ELSE /\ client_call' = NoCall
            /\ doc_result' = _split_resource_path(id)
    /\ UNCHANGED <<zoom_data, edits, chatVars, parserVars, convertVars,
                   listing>>

\* the store answers with the item or raises
GetDocContentReturns ==
    /\ client_call = "get_doc_content"
    /\ doc_result' = get_doc_content(zoom_data, doc_id)
    /\ client_call' = NoCall
    /\ UNCHANGED <<zoom_data, edits, chatVars, parserVars, convertVars,
                   doc_id, listing>>

InitStore ==
    /\ zoom_data = zoom_data_initial
    /\ edits = 0
    /\ IdleChat /\ IdleParser /\ IdleConvert /\ IdleClient

NextStore ==
    \/ \E t \in StoreEditTypes, i \in StoreEditIds, c \in NewContents,
          u \in BOOLEAN : edit_zoom_resource(t, i, c, u)
    \/ ListDocsIds
    \/ ListDocsIdsReturns
    \/ \E id \in DocIdInputs : GetDocContent(id)
    \/ GetDocContentReturns

SpecStore == InitStore /\ [][NextStore]_vars

-----------------------------------------------------------------------------
(* Claims about the store and its index client *)

\* the outcome is one of the store's not-found errors
IsNotFound(r) ==
    /\ ~r.ok
    /\ \/ \E t \in StoreEditTypes : r.exc = UnknownType(t)
       \/ \E t \in DOMAIN zoom_data, i \in StoreEditIds \cup {"987654321"} :
              r.exc = ItemNotFound(t, PyStrip(i))

\* C7: in every reachable store, every composite identifier of the listing
\* is fetched as the Document the store holds for its (type, id), and every
\* well-formed 'type/id' identifier outside the listing fails with the
\* store's not-found error.
C7_ListedIffFetched ==
    LET ids == list_docs_ids(zoom_data)
        listed(s) == \E k \in 1..Len(ids) : ids[k] = s
    IN  /\ \A k \in 1..Len(ids) :
              \E t \in DOMAIN zoom_data : \E i \in DOMAIN zoom_data[t] :
                  /\ ids[k] = t \o "/" \o i
                  /\ get_doc_content(zoom_data, ids[k]) = Return(zoom_data[t][i])
        /\ \A t \in StoreEditTypes, i \in StoreEditIds :
              ~listed(t \o "/" \o i) =>
                  IsNotFound(get_doc_content(zoom_data, t \o "/" \o i))

-----------------------------------------------------------------------------
(* Specifications of the query turn, interleaved with edits of the store   *)

ChatEditTypes == {"mail"}
ChatEditIds == {"email_2001", "new_1"}

TextBlock == [type |-> "text", text |-> "Reformat the item"]
ImageBlock == [type |-> "image", data |-> "x"]

\* answers of the templated-prompt interface
PromptResponses ==
    { <<>>,
      << [role |-> "user", content |-> [py |-> "object", fields |-> TextBlock]] >>,
      << [role |-> "user",
          content |-> PyList(<< [py |-> "object", fields |-> TextBlock],
                                [py |-> "dict", fields |-> ImageBlock],
                                [py |-> "dict", fields |-> [type |-> "text", text |-> "b"]] >>)],
         [role |-> "system", content |-> PyList(<< [py |-> "object", fields |-> ImageBlock] >>)] >> }

Queries ==
    { "compare @mail/email_2001 with @mail:new_1",
      "@mail/email_2001" \o VerticalTab \o "again" \o FileSeparator
          \o "@mail/email_2001" \o UnitSeparator,
      "ask @alice about @mail/none",
      "/format mail/email_2001",
      "/format",
      " /format mail/email_2001" }

Tokens ==
    { "@mail/email_2001", "@mail:email_2001", "@mail:new_1", "@alice",
      "@mail:a/b", "@meetings/987654321", "/for/mat", "" }

TokenQueries == {Join(ws, " ") : ws \in SeqsUpTo(Tokens, MaxTokens)}

InitChat ==
    /\ zoom_data = zoom_data_initial
    /\ edits = 0
    /\ IdleChat /\ IdleParser /\ IdleConvert /\ IdleClient

ChatEdit ==
    \E t \in ChatEditTypes, i \in ChatEditIds, c \in NewContents, u \in BOOLEAN :
        edit_zoom_resource(t, i, c, u)

Next ==
    \/ \E q \in Queries : StartQuery(q, MaxTurns)
    \/ \E pms \in PromptResponses : PromptReturns(pms)
    \/ ListingReturns
    \/ FetchReturns
    \/ RoundTripFails
    \/ ChatEdit

Spec == InitChat /\ [][Next]_vars

NextExtract ==
    \/ \E q \in TokenQueries : StartQuery(q, 1)
    \/ \E pms \in PromptResponses : PromptReturns(pms)
    \/ ListingReturns
    \/ FetchReturns
    \/ RoundTripFails
    \/ ChatEdit

SpecExtract == InitChat /\ [][NextExtract]_vars

-----------------------------------------------------------------------------
(* Claims about the query turn *)

\* p occurs in c
IsSubstring(p, c) ==
    \E a \in 0..(Len(c) - Len(p)) : SubSeq(c, a + 1, a + Len(p)) = p

TurnOver == pc \in {"done", "failed"}
IsListingCall(c) == c.call.op = "read_resource" /\ c.call.uri = IndexUri
IsFetchCall(c) == c.call.op = "read_resource" /\ c.call.uri # IndexUri
IsPromptCall(c) == c.call.op = "get_prompt"

\* the '@'-prefixed whitespace-delimited tokens of q, marker stripped
MentionBodies(q) ==
    LET words == PySplit(q)
        at == {k \in 1..Len(words) : CharAt(words[k], 1) = "@"}
        rank(k) == Cardinality({j \in at : j <= k})
    IN  [n \in 1..Cardinality(at) |->
            LET k == CHOOSE j \in at : rank(j) = n
            IN  SubSeq(words[k], 2, Len(words[k]))]

\* a body in colon form (a ':' and no '/') rewritten to 'type/id'; a body
\* in slash form, or without separator, unchanged
CanonicalBody(b) ==
    IF Contains(b, "/") \/ ~Contains(b, ":") THEN b
    ELSE LET k == FirstIndex(b, ":")
         IN  SubSeq(b, 1, k - 1) \o "/" \o SubSeq(b, k + 1, Len(b))

\* the canonical bodies of q that are in the index, in token order
ResolvedBodies(q, index) ==
    LET bodies == MentionBodies(q)
        canon == [k \in 1..Len(bodies) |-> CanonicalBody(bodies[k])]
        InIndex(b) == \E k \in 1..Len(index) : index[k] = b
    IN  SelectSeq(canon, InIndex)

\* C1: the fragment of a finished non-command turn holds one tagged block
\* per mention token whose canonical body is in the index of the turn's
\* single listing call, in token order, each mention fetched once per
\* occurrence; it is empty when no mention is in the index.
C1_OneBlockPerResolvedMention ==
    (pc = "done" /\ ~StartsWith(query, "/")) =>
        /\ Cardinality({k \in 1..Len(calls) : IsListingCall(calls[k])}) = 1
        /\ IsListingCall(calls[1])
        /\ LET kept == ResolvedBodies(query, calls[1].result.val)
           IN  /\ Len(calls) = 1 + Len(kept)
               /\ \A k \in 1..Len(kept) :
                     /\ calls[k + 1].call.uri = "res://resources/" \o kept[k]
                     /\ calls[k + 1].result.ok
               /\ added_resources =
                     Join([k \in 1..Len(kept) |->
                              "\n<resource id=\"" \o kept[k] \o "\">\n"
                                  \o PyFormat(calls[k + 1].result.val)
                                  \o "\n</resource>\n"], "")
               /\ kept = <<>> => added_resources = ""

\* a turn whose query mentions the same indexed item twice, once in colon
\* form, has finished with two blocks
C1_Witness ==
    /\ pc = "done"
    /\ Len(mentioned_docs) = 2
    /\ mentioned_docs[1][1] = mentioned_docs[2][1]
    /\ Contains(query, ":")
    /\ added_resources # ""

\* C3: the command name sent to the templated-prompt call is the first
\* token without its leading prefix character, the rest of the token
\* unchanged; the doc_id sent is the second token, or "" without one.
C3_NameIsFirstTokenMinusPrefix ==
    \A k \in 1..Len(calls) :
        IsPromptCall(calls[k]) =>
            LET words == PySplit(query)
            IN  /\ calls[k].call.name = SubSeq(words[1], 2, Len(words[1]))
                /\ calls[k].call.doc_id =
                       IF Len(words) >= 2 THEN words[2] ELSE ""

\* the history before the turn is a prefix of the history
HistoryKept ==
    /\ Len(messages) >= Len(pre_messages)
    /\ SubSeq(messages, 1, Len(pre_messages)) = pre_messages

\* C2: a turn is a command turn exactly when its query starts with '/'.
\* A command turn only requests the templated prompt and appends its
\* normalized messages in order; a non-command turn never requests a
\* prompt and appends one user message embedding the query and the
\* fragment.  Earlier history entries stay unchanged and in place.
C2_OneOfTwoRoutes ==
    /\ HistoryKept
    /\ StartsWith(query, "/") =>
          /\ \A k \in 1..Len(calls) : IsPromptCall(calls[k])
          /\ pc = "done" =>
                /\ Len(calls) = 1
                /\ messages = pre_messages \o
                       [k \in 1..Len(calls[1].result.val) |->
                           convert_prompt_message_to_message_param(
                               calls[1].result.val[k])]
    /\ ~StartsWith(query, "/") =>
          /\ \A k \in 1..Len(calls) : ~IsPromptCall(calls[k])
          /\ pc = "done" =>
                /\ Len(messages) = Len(pre_messages) + 1
                /\ LET last == messages[Len(messages)]
                   IN  /\ last.role = "user"
                       /\ last.content.py = "str"
                       /\ IsSubstring("<query>\n        " \o query
                                          \o "\n        </query>",
                                      last.content.value)
                       /\ IsSubstring("<context>\n        " \o added_resources
                                          \o "\n        </context>",
                                      last.content.value)

\* a command turn appended two templated messages behind the message of an
\* earlier non-command turn
C2_Witness ==
    /\ pc = "done"
    /\ StartsWith(query, "/")
    /\ Len(pre_messages) >= 1
    /\ pre_messages[1].content.py = "str"
    /\ Len(messages) = Len(pre_messages) + 2

HasMalformedMention(q) ==
    \E k \in 1..Len(MentionBodies(q)) :
        /\ ~Contains(MentionBodies(q)[k], "/")
        /\ ~Contains(MentionBodies(q)[k], ":")

\* the canonical bodies of the mentions of q that the index does not hold
UnresolvedMentions(q, index) ==
    {CanonicalBody(MentionBodies(q)[k]) : k \in 1..Len(MentionBodies(q))}
        \ {index[k] : k \in 1..Len(index)}

\* C8 as stated: a non-command turn whose query holds a mention without
\* separator aborts with the invalid-address error, while a mention absent
\* from the index only loses its block.
C8_MalformedMentionAborts ==
    (TurnOver /\ ~StartsWith(query, "/") /\ HasMalformedMention(query)
        /\ \A k \in 1..Len(calls) : calls[k].result.ok) =>
            /\ pc = "failed"
            /\ error = InvalidAddress

\* C8 amended: a mention without separator does not abort the turn; like a
\* mention absent from the index it is left out of the fragment without
\* any fetch, and the turn appends its message unless a store round trip
\* fails.  No query turn ends with the invalid-address error.
C8_UnresolvedMentionsAreOmitted ==
    /\ error # InvalidAddress
    /\ pc = "failed" => (calls # <<>> /\ ~calls[Len(calls)].result.ok)
    /\ (pc = "done" /\ ~StartsWith(query, "/")) =>
          /\ Len(messages) = Len(pre_messages) + 1
          /\ \A b \in UnresolvedMentions(query, calls[1].result.val) :
                /\ ~IsSubstring("<resource id=\"" \o b \o "\">", added_resources)
                /\ \A k \in 1..Len(calls) :
                      calls[k].call.uri # "res://resources/" \o b

\* a turn whose query holds a mention without separator and a mention
\* absent from the index has appended its message
C8_Witness ==
    /\ pc = "done"
    /\ HasMalformedMention(query)
    /\ \E b \in UnresolvedMentions(query, calls[1].result.val) : Contains(b, "/")
    /\ Len(messages) = Len(pre_messages) + 1

\* C9: when a store round trip of a turn fails, the turn ends with that
\* error and the history is what it was before the turn.
C9_FailedTurnLeavesHistory ==
    /\ (calls # <<>> /\ ~calls[Len(calls)].result.ok) =>
          /\ pc = "failed"
          /\ error = calls[Len(calls)].result.exc
          /\ messages = pre_messages
    /\ pc = "failed" => messages = pre_messages

\* a fetch failed after the listing and an earlier fetch had succeeded, in
\* a turn that follows an earlier turn
C9_Witness ==
    /\ pc = "failed"
    /\ Len(pre_messages) >= 1
    /\ Len(calls) = 3
    /\ Len(mentioned_docs) = 1

\* the (type, id) pairs the store holds
StorePairs(data) == UNION {{<<t, i>> : i \in DOMAIN data[t]} : t \in DOMAIN data}

\* no fetch of the turn was answered with a not-found error
NoFetchNotFound ==
    /\ ~IsSubstring("not found", error)
    /\ ~IsSubstring("Unknown resource_type", error)
    /\ \A k \in 1..Len(calls) :
          (IsFetchCall(calls[k]) /\ ~calls[k].result.ok) =>
              calls[k].result.exc = StoreFailure

\* a step never removes a (type, id) pair from the store
StoreNeverShrinks == StorePairs(zoom_data) \subseteq StorePairs(zoom_data')

\* a fetch that returns inlines what the store holds at that moment
FetchReadsCurrentContent ==
    (pc = "fetching" /\ Len(mentioned_docs') = Len(mentioned_docs) + 1) =>
        LET id == mentioned_docs'[Len(mentioned_docs')][1]
        IN  \E p \in StorePairs(zoom_data) :
                /\ id = p[1] \o "/" \o p[2]
                /\ mentioned_docs'[Len(mentioned_docs')][2] = zoom_data[p[1]][p[2]]

\* C10: with edits interleaved anywhere in a turn, the store never loses a
\* (type, id) pair, no fetch of a retained mention fails with not-found,
\* and each block holds the store's content at the time of its fetch.
C10_RetainedMentionsStayReadable ==
    /\ []NoFetchNotFound
    /\ [][StoreNeverShrinks /\ FetchReadsCurrentContent]_vars

\* a block holds content that differs from the content the item had when
\* the index was listed
C10_Witness ==
    /\ pc \in {"fetching", "done"}
    /\ \E k \in 1..Len(mentioned_docs) :
          \E p \in StorePairs(listed_data) :
              /\ mentioned_docs[k][1] = p[1] \o "/" \o p[2]
              /\ mentioned_docs[k][2] # listed_data[p[1]][p[2]]

====
